---- MODULE Spec2Model ----
(***************************************************************************)
(* HipSTR genotyping core.                                                 *)
(*   - remove_pcr_duplicates            (src/pcr_duplicates.cpp)            *)
(*   - GenotyperBamProcessor::analyze_reads_and_phasing                    *)
(*                                      (src/unnamed/part_000)             *)
(* The duplicate resolver runs under SpecDup, the per-locus analysis under  *)
(* Spec.  Timing instrumentation, the haploid flag, the reference panel    *)
(* pointer and the optional write_model of a learned model are passed      *)
(* through by the code and decide nothing here; they are left out.         *)
(***************************************************************************)
EXTENDS Integers, Sequences, FiniteSets, TLC

(***************************************************************************)
(* Bounds of the model.                                                    *)
(***************************************************************************)
\* Largest number of read pairs (primary+mate pairs plus unpaired reads)
\* handed to remove_pcr_duplicates in one call.
MaxPairs == 3

\* Largest number of reads (over all read groups) of one locus.
MaxReads == 2

\* Loci handed to analyze_reads_and_phasing in one run.
MaxLoci == 2

\* The configured minimum number of reads of a locus (a run-time option of
\* the program; the model fixes one value).
MIN_TOTAL_READS == 2

(***************************************************************************)
(* Duplicate resolver: data.                                               *)
(***************************************************************************)
\* Read groups of one call (the outer vectors' indices).
ReadGroups == {1}

\* BamAlignment::Position of a primary (STR-overlapping, hence placed) read
\* and of a mate; -1 is BamTools' value for an unplaced read.
PrimaryPositions == {0}
MatePositions == {-1, 0, 7}

\* BamAlignment::Qualities: strings of phred characters.
QualStrings == {<<2>>, <<1, 1>>}

\* (Filename, RG tag) of the alignments fed to the resolver.
NoTag == "<no RG tag>"
Sources == {[Filename |-> "a.bam", RG |-> "rg1"], [Filename |-> "b.bam", RG |-> "rg2"]}

\* Library mappings (std::map<std::string, std::string>), as functions on
\* their key sets.
LibraryMaps ==
  { [k \in {"a.bam", "b.bam", "rg1", "rg2"} |->
        IF k \in {"a.bam", "rg1"} THEN "lib1" ELSE "lib2"],
    [k \in {"a.bam", "rg1"} |-> "lib1"] }

\* A default-constructed BamTools::BamAlignment (the aln_2_ of a ReadPair
\* built from an unpaired read).
DefaultAlignment ==
  [Name |-> 0, Position |-> -1, Qualities |-> <<>>, Filename |-> "", RG |-> NoTag]

VARIABLES
  use_bam_rgs,          \* argument
  rg_to_library,        \* argument (operator[] may insert into it)
  paired_strs_by_rg,    \* argument, rewritten in place
  mate_pairs_by_rg,     \* argument, rewritten in place
  unpaired_strs_by_rg,  \* argument, rewritten in place
  input,                \* the three vectors as they were at the call
  rg,                   \* loop variable i of the outer loop
  read_pairs,           \* the sorted vector of the current read group
  best_index,           \* loop state of the scan
  scan_j,               \* loop variable j of the scan
  dup_count,
  logger,               \* lines written to the logger
  dpc                   \* position in remove_pcr_duplicates

dupvars == <<use_bam_rgs, rg_to_library, paired_strs_by_rg, mate_pairs_by_rg,
             unpaired_strs_by_rg, input, rg, read_pairs, best_index, scan_j,
             dup_count, logger, dpc>>

VARIABLES
  \* configuration of the GenotyperBamProcessor, fixed over a run
  read_stutter_models_, use_seq_aligner_, output_str_gts_, output_alleles_,
  recalc_stutter_model_,
  stutter_models_,      \* the regions the model dictionary has a model for
  \* members that accumulate over the loci
  num_em_converge_, num_em_fail_, num_genotype_success_, num_genotype_fail_,
  str_vcf_,             \* genotype records written to str_vcf_
  allele_vcf_,          \* allele records written to allele_vcf_
  loci_done,            \* calls that have returned
  \* arguments and locals of the current call
  alignments, log_p1s, log_p2s,
  total_reads, skip_count, inf_reads,
  str_bp_lengths, str_log_p1s, str_log_p2s,
  ei, ej,               \* the extraction loops' i and j (1-based)
  trained, stutter_model, length_genotyper,
  \* observation of the current call
  trace,                \* log lines and calls to collaborators, in order
  entry,                \* the four counters as they were at the call
  oob_read,             \* an element was read past the end of its vector
  pc                    \* position in analyze_reads_and_phasing

cfgvars == <<read_stutter_models_, use_seq_aligner_, output_str_gts_, output_alleles_,
             recalc_stutter_model_, stutter_models_>>

countervars == <<num_em_converge_, num_em_fail_, num_genotype_success_,
                 num_genotype_fail_, str_vcf_, allele_vcf_>>

argvars == <<alignments, log_p1s, log_p2s, total_reads, entry>>

extractvars == <<skip_count, inf_reads, str_bp_lengths, str_log_p1s, str_log_p2s,
                 ei, ej, oob_read>>

modelvars == <<trained, stutter_model, length_genotyper>>

locusvars == <<cfgvars, countervars, loci_done, argvars, extractvars, modelvars, trace, pc>>

vars == <<dupvars, locusvars>>

NULL == "NULL"

\* The locals of analyze_reads_and_phasing while no call is active.
NoCall ==
  /\ alignments = <<>> /\ log_p1s = <<>> /\ log_p2s = <<>>
  /\ total_reads = 0 /\ skip_count = 0 /\ inf_reads = 0
  /\ str_bp_lengths = <<>> /\ str_log_p1s = <<>> /\ str_log_p2s = <<>>
  /\ ei = 0 /\ ej = 0
  /\ trained = FALSE /\ stutter_model = NULL /\ length_genotyper = NULL
  /\ trace = <<>> /\ oob_read = FALSE

\* A processor that analyses no locus (the state of the locus variables
\* while the duplicate resolver is studied).
NoProcessor ==
  /\ read_stutter_models_ = FALSE /\ use_seq_aligner_ = FALSE
  /\ output_str_gts_ = FALSE /\ output_alleles_ = FALSE
  /\ recalc_stutter_model_ = FALSE
  /\ stutter_models_ = {}
  /\ num_em_converge_ = 0 /\ num_em_fail_ = 0
  /\ num_genotype_success_ = 0 /\ num_genotype_fail_ = 0
  /\ str_vcf_ = 0 /\ allele_vcf_ = 0 /\ loci_done = 0
  /\ entry = <<0, 0, 0, 0>>
  /\ NoCall
  /\ pc = "off"

\* No call of remove_pcr_duplicates (the state of the resolver's variables
\* while the locus analysis is studied).
NoResolver ==
  /\ use_bam_rgs = FALSE /\ rg_to_library = <<>>
  /\ paired_strs_by_rg = <<>> /\ mate_pairs_by_rg = <<>> /\ unpaired_strs_by_rg = <<>>
  /\ input = <<>> /\ rg = 0 /\ read_pairs = <<>> /\ best_index = 0 /\ scan_j = 0
  /\ dup_count = 0 /\ logger = <<>> /\ dpc = "off"

(***************************************************************************)
(* Helpers.                                                                *)
(***************************************************************************)
Min(a, b) == IF a < b THEN a ELSE b
Max(a, b) == IF a < b THEN b ELSE a

RECURSIVE SumSeq(_)
SumSeq(s) == IF s = <<>> THEN 0 ELSE Head(s) + SumSeq(Tail(s))

SeqRange(s) == {s[k] : k \in 1..Len(s)}

\* std::string::compare on the library names that occur: "" sorts before
\* "lib1", which sorts before "lib2".
LibRank(lib) == CASE lib = "" -> 0 [] lib = "lib1" -> 1 [] lib = "lib2" -> 2

StringCompare(a, b) == LibRank(a) - LibRank(b)

\* BaseQuality::log_prob_correct of one quality character, in tenths.
LogProbCorrect(q) == CASE q = 1 -> -3 [] q = 2 -> -1

\* BaseQuality::sum_log_prob_correct(qualities)
RECURSIVE sum_log_prob_correct(_)
sum_log_prob_correct(qualities) ==
  IF qualities = <<>> THEN 0
  ELSE LogProbCorrect(Head(qualities)) + sum_log_prob_correct(Tail(qualities))

(***************************************************************************)
(* class ReadPair                                                          *)
(***************************************************************************)
\* ReadPair(aln_1, library)
ReadPairSingle(aln_1, library) ==
  [aln_1_ |-> aln_1, aln_2_ |-> DefaultAlignment,
   min_read_start_ |-> -1, max_read_start_ |-> aln_1.Position,
   library_ |-> library]

\* ReadPair(aln_1, aln_2, library)
ReadPairPaired(aln_1, aln_2, library) ==
  [aln_1_ |-> aln_1, aln_2_ |-> aln_2,
   min_read_start_ |-> Min(aln_1.Position, aln_2.Position),
   max_read_start_ |-> Max(aln_1.Position, aln_2.Position),
   library_ |-> library]

single_ended(p) == p.min_read_start_ = -1

duplicate(p, q) ==
  /\ StringCompare(p.library_, q.library_) = 0
  /\ p.min_read_start_ = q.min_read_start_
  /\ p.max_read_start_ = q.max_read_start_

\* A plausible slip: the library is left out of the ordering.
ReadPairLess_mutant(p, q) ==
  IF p.min_read_start_ # q.min_read_start_
  THEN p.min_read_start_ < q.min_read_start_
  ELSE p.max_read_start_ < q.max_read_start_

\* operator <
ReadPairLess(p, q) ==
  LET lib_comp == StringCompare(p.library_, q.library_) IN
  IF lib_comp # 0 THEN lib_comp < 0
  ELSE IF p.min_read_start_ # q.min_read_start_
       THEN p.min_read_start_ < q.min_read_start_
       ELSE p.max_read_start_ < q.max_read_start_

(***************************************************************************)
(* get_library and the library expression of lines 80 and 84.  The result  *)
(* is [die, library, map]: printErrorAndDie ends the process; operator[]   *)
(* on a missing key inserts the key with an empty library.                 *)
(***************************************************************************)
get_library(aln, map) ==
  IF aln.RG = NoTag THEN [die |-> TRUE, library |-> "", map |-> map]
  ELSE IF aln.RG \notin DOMAIN map THEN [die |-> TRUE, library |-> "", map |-> map]
  ELSE [die |-> FALSE, library |-> map[aln.RG], map |-> map]

MapIndex(aln, map) ==
  IF aln.Filename \in DOMAIN map
  THEN [die |-> FALSE, library |-> map[aln.Filename], map |-> map]
  ELSE [die |-> FALSE, library |-> "",
        map |-> [k \in DOMAIN map \cup {aln.Filename} |->
                    IF k \in DOMAIN map THEN map[k] ELSE ""]]

Library(aln, map, bam_rgs) ==
  IF bam_rgs THEN get_library(aln, map) ELSE MapIndex(aln, map)

\* Lines 78-86: the read pairs of read group i, paired ones first.  The
\* result is [die, pairs, map].
RECURSIVE BuildPaired(_, _, _, _, _)
BuildPaired(strs, mates, map, bam_rgs, acc) ==
  IF strs = <<>> THEN [die |-> FALSE, pairs |-> acc, map |-> map]
  ELSE LET l == Library(Head(strs), map, bam_rgs) IN
       IF l.die THEN [die |-> TRUE, pairs |-> acc, map |-> l.map]
       ELSE BuildPaired(Tail(strs), Tail(mates), l.map, bam_rgs,
                        Append(acc, ReadPairPaired(Head(strs), Head(mates), l.library)))

RECURSIVE BuildUnpaired(_, _, _, _)
BuildUnpaired(strs, map, bam_rgs, acc) ==
  IF strs = <<>> THEN [die |-> FALSE, pairs |-> acc, map |-> map]
  ELSE LET l == Library(Head(strs), map, bam_rgs) IN
       IF l.die THEN [die |-> TRUE, pairs |-> acc, map |-> l.map]
       ELSE BuildUnpaired(Tail(strs), l.map, bam_rgs,
                          Append(acc, ReadPairSingle(Head(strs), l.library)))

BuildReadPairs(strs, mates, unpaired, map, bam_rgs) ==
  LET a == BuildPaired(strs, mates, map, bam_rgs, <<>>) IN
  IF a.die THEN a ELSE BuildUnpaired(unpaired, a.map, bam_rgs, a.pairs)

\* std::sort(read_pairs.begin(), read_pairs.end()): some arrangement of the
\* elements in which no element is less than one before it.  std::sort is
\* not stable, so elements that compare equal may land in any order.
IndexPermutations(n) == {f \in [1..n -> 1..n] : \A a, b \in 1..n : a # b => f[a] # f[b]}

IsSorted(s) == \A a, b \in 1..Len(s) : a < b => ~ReadPairLess(s[b], s[a])

SortedArrangements(s) ==
  {t \in {[k \in 1..Len(s) |-> s[f[k]]] : f \in IndexPermutations(Len(s))} : IsSorted(t)}

(***************************************************************************)
(* Inputs of one call.                                                     *)
(***************************************************************************)
Alignment(name, pos, qual, src) ==
  [Name |-> name, Position |-> pos, Qualities |-> qual,
   Filename |-> src.Filename, RG |-> src.RG]

\* How many pairs and unpaired reads each read group gets: np, nu.
Shapes ==
  {sh \in [ReadGroups -> [np : 0..MaxPairs, nu : 0..MaxPairs]] :
      SumSeq([g \in ReadGroups |-> sh[g].np + sh[g].nu]) <= MaxPairs}

\* Names are unique over the call: mates share their primary read's name.
Offset(sh, g) == SumSeq([h \in 1..(g - 1) |-> sh[h].np + sh[h].nu])

PairedNames(sh) ==
  {k \in 1..MaxPairs : \E g \in ReadGroups : k > Offset(sh, g) /\ k <= Offset(sh, g) + sh[g].np}

InitDup ==
  /\ use_bam_rgs \in BOOLEAN
  /\ rg_to_library \in LibraryMaps
  /\ \E sh \in Shapes :
       LET n == SumSeq([g \in ReadGroups |-> sh[g].np + sh[g].nu]) IN
       \E pos \in [1..n -> PrimaryPositions],
          mpos \in [PairedNames(sh) -> MatePositions],
          qual \in [1..n -> QualStrings], src \in [1..n -> Sources] :
         /\ paired_strs_by_rg =
              [g \in ReadGroups |->
                 [k \in 1..sh[g].np |->
                    Alignment(Offset(sh, g) + k, pos[Offset(sh, g) + k],
                              qual[Offset(sh, g) + k], src[Offset(sh, g) + k])]]
         /\ mate_pairs_by_rg =
              [g \in ReadGroups |->
                 [k \in 1..sh[g].np |->
                    Alignment(Offset(sh, g) + k, mpos[Offset(sh, g) + k],
                              <<>>, src[Offset(sh, g) + k])]]
         /\ unpaired_strs_by_rg =
              [g \in ReadGroups |->
                 [k \in 1..sh[g].nu |->
                    Alignment(Offset(sh, g) + sh[g].np + k,
                              pos[Offset(sh, g) + sh[g].np + k],
                              qual[Offset(sh, g) + sh[g].np + k],
                              src[Offset(sh, g) + sh[g].np + k])]]
  /\ input = [paired |-> paired_strs_by_rg, mates |-> mate_pairs_by_rg,
              unpaired |-> unpaired_strs_by_rg]
  /\ rg = 1
  /\ read_pairs = <<>>
  /\ best_index = 0
  /\ scan_j = 0
  /\ dup_count = 0
  /\ logger = <<>>
  /\ dpc = "build"
  /\ NoProcessor

(***************************************************************************)
(* remove_pcr_duplicates, one action per step of its loops.  Indices are   *)
(* 1-based here: best_index = b stands for the code's best_index = b - 1.  *)
(***************************************************************************)
\* Lines 75-94: the loop test, the read pairs of read group rg, the sort,
\* the clearing of the three vectors, and the empty case.
build_and_sort ==
  /\ UNCHANGED locusvars
  /\ dpc = "build"
  /\ rg \in ReadGroups
  /\ LET b == BuildReadPairs(paired_strs_by_rg[rg], mate_pairs_by_rg[rg],
                             unpaired_strs_by_rg[rg], rg_to_library, use_bam_rgs) IN
     IF b.die
     THEN /\ dpc' = "died"
          /\ rg_to_library' = b.map
          /\ UNCHANGED <<paired_strs_by_rg, mate_pairs_by_rg, unpaired_strs_by_rg,
                         rg, read_pairs, best_index, scan_j>>
     ELSE /\ rg_to_library' = b.map
          /\ read_pairs' \in SortedArrangements(b.pairs)
          /\ paired_strs_by_rg' = [paired_strs_by_rg EXCEPT ![rg] = <<>>]
          /\ mate_pairs_by_rg' = [mate_pairs_by_rg EXCEPT ![rg] = <<>>]
          /\ unpaired_strs_by_rg' = [unpaired_strs_by_rg EXCEPT ![rg] = <<>>]
          /\ IF b.pairs = <<>>
             THEN /\ rg' = rg + 1
                  /\ dpc' = "build"
                  /\ UNCHANGED <<best_index, scan_j>>
             ELSE /\ best_index' = 1
                  /\ scan_j' = 2
                  /\ dpc' = "scan"
                  /\ rg' = rg
  /\ UNCHANGED <<use_bam_rgs, input, dup_count, logger>>

\* Lines 105-110 and 116-121: push the pair at index b to the outputs.
KeepPaired(b) ==
  IF single_ended(read_pairs[b]) THEN paired_strs_by_rg[rg]
  ELSE Append(paired_strs_by_rg[rg], read_pairs[b].aln_1_)

KeepMates(b) ==
  IF single_ended(read_pairs[b]) THEN mate_pairs_by_rg[rg]
  ELSE Append(mate_pairs_by_rg[rg], read_pairs[b].aln_2_)

KeepUnpaired(b) ==
  IF single_ended(read_pairs[b]) THEN Append(unpaired_strs_by_rg[rg], read_pairs[b].aln_1_)
  ELSE unpaired_strs_by_rg[rg]

\* A plausible slip: >= lets a later pair of equal quality replace the best.
BetterQuality_mutant(p, q) ==
  sum_log_prob_correct(p.aln_1_.Qualities) >= sum_log_prob_correct(q.aln_1_.Qualities)

\* Lines 99-100.
BetterQuality(p, q) ==
  sum_log_prob_correct(p.aln_1_.Qualities) > sum_log_prob_correct(q.aln_1_.Qualities)

\* Lines 95-113: one iteration of the scan.
scan_step ==
  /\ UNCHANGED locusvars
  /\ dpc = "scan"
  /\ scan_j <= Len(read_pairs)
  /\ IF duplicate(read_pairs[scan_j], read_pairs[best_index])
     THEN /\ dup_count' = dup_count + 1
          /\ best_index' = IF BetterQuality(read_pairs[scan_j], read_pairs[best_index])
                           THEN scan_j ELSE best_index
          /\ UNCHANGED <<paired_strs_by_rg, mate_pairs_by_rg, unpaired_strs_by_rg>>
     ELSE /\ paired_strs_by_rg' = [paired_strs_by_rg EXCEPT ![rg] = KeepPaired(best_index)]
          /\ mate_pairs_by_rg' = [mate_pairs_by_rg EXCEPT ![rg] = KeepMates(best_index)]
          /\ unpaired_strs_by_rg' =
               [unpaired_strs_by_rg EXCEPT ![rg] = KeepUnpaired(best_index)]
          /\ best_index' = scan_j
          /\ UNCHANGED dup_count
  /\ scan_j' = scan_j + 1
  /\ UNCHANGED <<use_bam_rgs, rg_to_library, input, rg, read_pairs, logger, dpc>>

\* Lines 115-122: the best pair of the last set of duplicates; the read
\* group is finished.
keep_last ==
  /\ UNCHANGED locusvars
  /\ dpc = "scan"
  /\ scan_j > Len(read_pairs)
  /\ paired_strs_by_rg' = [paired_strs_by_rg EXCEPT ![rg] = KeepPaired(best_index)]
  /\ mate_pairs_by_rg' = [mate_pairs_by_rg EXCEPT ![rg] = KeepMates(best_index)]
  /\ unpaired_strs_by_rg' = [unpaired_strs_by_rg EXCEPT ![rg] = KeepUnpaired(best_index)]
  /\ dpc' = "kept"
  /\ UNCHANGED <<use_bam_rgs, rg_to_library, input, rg, read_pairs, best_index,
                 scan_j, dup_count, logger>>

\* Line 75: i++ after a read group that had read pairs.
next_read_group ==
  /\ UNCHANGED locusvars
  /\ dpc = "kept"
  /\ rg' = rg + 1
  /\ dpc' = "build"
  /\ UNCHANGED <<use_bam_rgs, rg_to_library, paired_strs_by_rg, mate_pairs_by_rg,
                 unpaired_strs_by_rg, input, read_pairs, best_index, scan_j,
                 dup_count, logger>>

\* Line 123.
log_removed ==
  /\ UNCHANGED locusvars
  /\ dpc = "build"
  /\ rg \notin ReadGroups
  /\ logger' = Append(logger, <<"Removed", dup_count, "sets of PCR duplicate reads">>)
  /\ dpc' = "done"
  /\ UNCHANGED <<use_bam_rgs, rg_to_library, paired_strs_by_rg, mate_pairs_by_rg,
                 unpaired_strs_by_rg, input, rg, read_pairs, best_index, scan_j,
                 dup_count>>

NextDup == build_and_sort \/ scan_step \/ keep_last \/ next_read_group \/ log_removed

SpecDup == InitDup /\ [][NextDup]_vars

(***************************************************************************)
(* Per-locus analysis: data.                                               *)
(***************************************************************************)
\* The locus handed to every call.
region == [chrom |-> "chr1", start |-> 100, stop |-> 103, period |-> 2]

rg_names == <<"sample1", "sample2">>

\* What ExtractCigar(CigarData, Position, start - period, stop + period,
\* bp_diff) makes of an alignment: whether it resolved an offset, and the
\* offset.  The alignment carries that result in place of its CIGAR.  The
\* offsets are the two around the test of line 34: minus the reference
\* allele's length and one less (any larger offset takes the path of the
\* first through the code).
CigarResults ==
  {[got_size |-> FALSE, bp_diff |-> 0]} \cup
  {[got_size |-> TRUE, bp_diff |-> d] :
     d \in {-(region.stop - region.start + 1) - 1, -(region.stop - region.start + 1)}}

ExtractCigar(aln) == aln.cigar_result

\* Phasing log-likelihoods a caller supplies for read j of a batch, for
\* haplotype 1 and for haplotype 2.
PhaseLL(haplotype, j) == IF haplotype = 1 THEN -(2 * j - 1) ELSE -(2 * j)

\* What one read past the end of a vector may yield when it yields anything:
\* whatever double lies in the memory behind the vector.  Zero stands for
\* zeroed storage (the value then equals the default) and -3 for any other
\* double, which may well look like a log-likelihood.  The reads of
\* log_p1s and of log_p2s each draw on their own.
GarbageValues == {-3, 0}

Event(call, ok) == [call |-> call, ok |-> ok]

Counters == <<num_em_converge_, num_em_fail_, num_genotype_success_, num_genotype_fail_>>

\* Reads per read group of one locus.
LocusShapes ==
  {sh \in [DOMAIN rg_names -> 0..MaxReads] :
      SumSeq([g \in DOMAIN rg_names |-> sh[g]]) <= MaxReads}

\* Phasing inputs the data model allows for a locus of that shape: none at
\* all (empty outer sequences), or one batch per read group that is either
\* as long as the read group's alignments or empty.
PhasingChoices(sh) ==
  {<<>>} \cup {sup \in [DOMAIN rg_names -> BOOLEAN] : \A g \in DOMAIN rg_names : sh[g] = 0 => sup[g]}

PhasingInput(sh, ph, haplotype) ==
  IF ph = <<>> THEN <<>>
  ELSE [g \in DOMAIN rg_names |->
          IF ph[g] THEN [j \in 1..sh[g] |-> PhaseLL(haplotype, j)] ELSE <<>>]

(***************************************************************************)
(* GenotyperBamProcessor::analyze_reads_and_phasing                        *)
(***************************************************************************)
Init ==
  /\ read_stutter_models_ \in BOOLEAN
  /\ use_seq_aligner_ \in BOOLEAN
  /\ output_str_gts_ \in BOOLEAN
  \* a flag the configuration never reads is left at FALSE
  /\ output_alleles_ \in (IF use_seq_aligner_ THEN BOOLEAN ELSE {FALSE})
  /\ recalc_stutter_model_ \in
       (IF use_seq_aligner_ /\ output_str_gts_ THEN BOOLEAN ELSE {FALSE})
  /\ stutter_models_ \in (IF read_stutter_models_ THEN {{}, {region}} ELSE {{}})
  /\ num_em_converge_ = 0 /\ num_em_fail_ = 0
  /\ num_genotype_success_ = 0 /\ num_genotype_fail_ = 0
  /\ str_vcf_ = 0 /\ allele_vcf_ = 0 /\ loci_done = 0
  /\ entry = <<0, 0, 0, 0>>
  /\ NoCall
  /\ pc = "idle"
  /\ NoResolver

\* A plausible slip: an off-by-one in the threshold.
BelowMinimum_mutant(n) == n < MIN_TOTAL_READS - 1

\* The comparison of lines 15 and 53.
BelowMinimum(n) == n < MIN_TOTAL_READS

\* Line 15.
TooFewReads(total) == BelowMinimum(total)

\* A plausible slip: the skipped reads are not subtracted.
TooFewUsable_mutant(total, skipped) == BelowMinimum(total)

\* Line 53.
TooFewUsable(total, skipped) == BelowMinimum(total - skipped)

\* Line 28.
NeedLengths == ~read_stutter_models_ \/ ~use_seq_aligner_

\* A plausible slip: <= drops the read whose difference equals the negative
\* reference allele length.
Excluded_mutant(bp_diff, r) == bp_diff <= -(r.stop - r.start + 1)

\* Line 34.
Excluded(bp_diff, r) == bp_diff < -(r.stop - r.start + 1)

\* The loops of lines 29-30: the first read at or after read j of read
\* group i, as <<i, j>>, or <<0, 0>> when the loops are over.
RECURSIVE ReadAtOrAfter(_, _, _)
ReadAtOrAfter(als, i, j) ==
  IF i > Len(als) THEN <<0, 0>>
  ELSE IF j <= Len(als[i]) THEN <<i, j>>
  ELSE ReadAtOrAfter(als, i + 1, 1)

\* Lines 12-28: the read count, the first early exit, the size assertion
\* and the locals.  A build with assertions aborts on a failed assertion; a
\* build with NDEBUG goes on.
analyze_entry ==
  /\ pc = "idle"
  /\ loci_done < MaxLoci
  /\ \E sh \in LocusShapes :
       \E ph \in PhasingChoices(sh),
          res \in [1..SumSeq([g \in DOMAIN rg_names |-> sh[g]]) -> CigarResults] :
         LET first(g) == SumSeq([h \in 1..(g - 1) |-> sh[h]])
             als == [g \in DOMAIN rg_names |->
                       [j \in 1..sh[g] |->
                          [Name |-> first(g) + j, cigar_result |-> res[first(g) + j]]]]
             p1s == PhasingInput(sh, ph, 1)
             p2s == PhasingInput(sh, ph, 2)
             total == SumSeq([g \in DOMAIN als |-> Len(als[g])])
             sizes_ok == /\ Len(als) = Len(p1s) /\ Len(als) = Len(p2s)
                         /\ Len(als) = Len(rg_names)
             start == IF NeedLengths THEN ReadAtOrAfter(als, 1, 1) ELSE <<0, 0>>
         IN
         /\ alignments' = als
         /\ log_p1s' = p1s
         /\ log_p2s' = p2s
         /\ total_reads' = total
         /\ entry' = Counters
         /\ IF TooFewReads(total)
            THEN /\ trace' = <<Event("log: Skipping locus with too few reads", TRUE)>>
                 /\ pc' = "returned"
                 /\ UNCHANGED <<str_bp_lengths, str_log_p1s, str_log_p2s, ei, ej>>
            ELSE \E asserting \in (IF sizes_ok THEN {FALSE} ELSE BOOLEAN) :
                 IF asserting
                 THEN /\ trace' = <<Event("assertion failed", TRUE)>>
                      /\ pc' = "aborted"
                      /\ UNCHANGED <<str_bp_lengths, str_log_p1s, str_log_p2s, ei, ej>>
                 ELSE /\ trace' = <<>>
                      /\ pc' = IF start = <<0, 0>> THEN "acquire" ELSE "extract"
                      /\ str_bp_lengths' = [g \in DOMAIN als |-> <<>>]
                      /\ str_log_p1s' = [g \in DOMAIN als |-> <<>>]
                      /\ str_log_p2s' = [g \in DOMAIN als |-> <<>>]
                      /\ ei' = start[1]
                      /\ ej' = start[2]
  /\ UNCHANGED <<cfgvars, countervars, loci_done, skip_count, inf_reads, oob_read,
                 modelvars, dupvars>>

\* Line 44: what reading lls[i][j] yields (lls is log_p1s or log_p2s).
\* Inside the vectors it is the element; past the end the behaviour is
\* undefined: the process may fault, or the read may yield anything.
PhasingRead(lls, i, j) ==
  IF i <= Len(lls) /\ j <= Len(lls[i])
  THEN {[oob |-> FALSE, fault |-> FALSE, v |-> lls[i][j]]}
  ELSE {[oob |-> TRUE, fault |-> TRUE, v |-> 0]} \cup
       {[oob |-> TRUE, fault |-> FALSE, v |-> g] : g \in GarbageValues}

\* Lines 40-45: the two push_backs of read j of group i, in order: how many
\* of them completed and the values they appended.  Line 44 is two
\* statements, so a fault in the read of log_p2s[i][j] comes after the
\* push_back onto str_log_p1s[i].
PhasingOf(i, j) ==
  IF Len(log_p1s) = 0
  THEN {[oob |-> FALSE, pushed |-> 2, p1 |-> 0, p2 |-> 0]}
  ELSE {[oob |-> TRUE, pushed |-> 0, p1 |-> 0, p2 |-> 0] :
          a \in {x \in PhasingRead(log_p1s, i, j) : x.fault}} \cup
       {[oob |-> a.oob \/ b.oob, pushed |-> IF b.fault THEN 1 ELSE 2,
         p1 |-> a.v, p2 |-> b.v] :
          a \in {x \in PhasingRead(log_p1s, i, j) : ~x.fault},
          b \in PhasingRead(log_p2s, i, j)}

\* Lines 30-49: one iteration of the inner loop, and the loop tests.
extract_read ==
  /\ pc = "extract"
  /\ LET r == ExtractCigar(alignments[ei][ej])
         next == ReadAtOrAfter(alignments, ei, ej + 1)
         records == r.got_size /\ ~Excluded(r.bp_diff, region)
     IN
     \E ph \in (IF records THEN PhasingOf(ei, ej)
                ELSE {[oob |-> FALSE, pushed |-> 2, p1 |-> 0, p2 |-> 0]}) :
       /\ skip_count' = IF r.got_size THEN skip_count ELSE skip_count + 1
       /\ inf_reads' = IF records THEN inf_reads + 1 ELSE inf_reads
       /\ str_bp_lengths' =
            IF records THEN [str_bp_lengths EXCEPT ![ei] = Append(@, r.bp_diff)]
            ELSE str_bp_lengths
       /\ str_log_p1s' =
            IF records /\ ph.pushed >= 1 THEN [str_log_p1s EXCEPT ![ei] = Append(@, ph.p1)]
            ELSE str_log_p1s
       /\ str_log_p2s' =
            IF records /\ ph.pushed = 2 THEN [str_log_p2s EXCEPT ![ei] = Append(@, ph.p2)]
            ELSE str_log_p2s
       /\ oob_read' = (oob_read \/ ph.oob)
       /\ trace' =
            IF r.got_size /\ Excluded(r.bp_diff, region)
            THEN Append(trace, Event("log: WARNING: Excluding read", TRUE))
            ELSE trace
       /\ IF ph.pushed < 2
          THEN pc' = "crashed" /\ UNCHANGED <<ei, ej>>
          ELSE /\ ei' = next[1]
               /\ ej' = next[2]
               /\ pc' = IF next = <<0, 0>> THEN "acquire" ELSE "extract"
  /\ UNCHANGED <<cfgvars, countervars, loci_done, argvars, modelvars, dupvars>>

\* A plausible slip: the model of a failed training is handed on.
StutterModelAfterTrain_mutant(converged) == "stutter model"

\* Lines 78-89: the stutter model a training leaves.
StutterModelAfterTrain(converged) == IF converged THEN "stutter model" ELSE NULL

\* A plausible slip: a failed training is not counted.
EmFailAfterTrain_mutant(converged, n) == n

\* Lines 78-86: num_em_fail_ after a training.
EmFailAfterTrain(converged, n) == IF converged THEN n ELSE n + 1

\* Lines 53-92: the second early exit, then the stutter model: looked up in
\* the dictionary, or learned by the EM genotyper, whose train() converges
\* or not.
acquire_stutter_model ==
  /\ pc = "acquire"
  /\ IF TooFewUsable(total_reads, skip_count)
     THEN /\ trace' = Append(trace, Event("log: Skipping locus with too few reads", TRUE))
          /\ pc' = "returned"
          /\ UNCHANGED <<countervars, modelvars>>
     ELSE IF read_stutter_models_
     THEN /\ stutter_model' = IF region \in stutter_models_ THEN "stutter model" ELSE NULL
          /\ trace' = trace \o
               <<Event("stutter_models_.find", region \in stutter_models_)>> \o
               (IF region \in stutter_models_ THEN <<>>
                ELSE <<Event("log: WARNING: No stutter model found", TRUE)>>)
          /\ pc' = "genotype"
          /\ UNCHANGED <<countervars, trained, length_genotyper>>
     ELSE \E converged \in BOOLEAN :
          /\ length_genotyper' = "EMStutterGenotyper"
          /\ trained' = converged
          /\ stutter_model' = StutterModelAfterTrain(converged)
          /\ num_em_converge_' = IF converged THEN num_em_converge_ + 1 ELSE num_em_converge_
          /\ num_em_fail_' = EmFailAfterTrain(converged, num_em_fail_)
          /\ trace' = trace \o
               <<Event("new EMStutterGenotyper", TRUE),
                 Event("EMStutterGenotyper::train", converged)>> \o
               (IF converged THEN <<Event("log: Learned stutter model", TRUE)>>
                ELSE <<Event("log: Stutter model training failed", TRUE)>>)
          /\ pc' = "genotype"
          /\ UNCHANGED <<num_genotype_success_, num_genotype_fail_, str_vcf_, allele_vcf_>>
  /\ UNCHANGED <<cfgvars, loci_done, argvars, extractvars, dupvars>>

\* A plausible slip: the record is written whatever genotype() returned.
RecordsAfterGenotype_mutant(ok, n) == n + 1

\* Lines 110-114 and 134-137: the records of str_vcf_ after a genotype().
RecordsAfterGenotype(ok, n) == IF ok THEN n + 1 ELSE n

\* Lines 94-165: genotyping with the sequence-based or the length-based
\* genotyper, whose genotype() succeeds or not, and the clean-up.
genotype_locus ==
  /\ pc = "genotype"
  /\ IF stutter_model = NULL
     THEN /\ pc' = "returned"
          /\ UNCHANGED <<countervars, modelvars, trace>>
     ELSE \E ok \in (IF output_str_gts_ THEN BOOLEAN ELSE {FALSE}) :
          /\ num_genotype_success_' =
               IF output_str_gts_ /\ ok THEN num_genotype_success_ + 1
               ELSE num_genotype_success_
          /\ num_genotype_fail_' =
               IF output_str_gts_ /\ ~ok THEN num_genotype_fail_ + 1
               ELSE num_genotype_fail_
          /\ str_vcf_' = IF output_str_gts_ THEN RecordsAfterGenotype(ok, str_vcf_)
                         ELSE str_vcf_
          /\ UNCHANGED <<num_em_converge_, num_em_fail_, trained, stutter_model>>
          /\ IF use_seq_aligner_
             THEN /\ allele_vcf_' = IF output_alleles_ THEN allele_vcf_ + 1 ELSE allele_vcf_
                  /\ trace' = trace \o
                       <<Event("new SeqStutterGenotyper", TRUE)>> \o
                       (IF output_alleles_
                        THEN <<Event("SeqStutterGenotyper::write_vcf_record allele_vcf_", TRUE)>>
                        ELSE <<>>) \o
                       (IF output_str_gts_
                        THEN <<Event("SeqStutterGenotyper::genotype", ok)>> ELSE <<>>) \o
                       (IF output_str_gts_ /\ RecordsAfterGenotype(ok, 0) = 1
                        THEN <<Event("SeqStutterGenotyper::write_vcf_record str_vcf_", TRUE)>>
                        ELSE <<>>) \o
                       (IF output_str_gts_ /\ ok /\ recalc_stutter_model_
                        THEN <<Event("printErrorAndDie", TRUE)>> ELSE <<>>)
                  /\ pc' = IF output_str_gts_ /\ ok /\ recalc_stutter_model_
                           THEN "died" ELSE "returned"
                  /\ UNCHANGED length_genotyper
             ELSE /\ length_genotyper' = "EMStutterGenotyper"
                  /\ trace' = trace \o
                       (IF length_genotyper = NULL
                        THEN <<Event("new EMStutterGenotyper", TRUE),
                               Event("EMStutterGenotyper::set_stutter_model", TRUE)>>
                        ELSE <<>>) \o
                       (IF output_str_gts_
                        THEN <<Event("EMStutterGenotyper::genotype", ok)>> ELSE <<>>) \o
                       (IF output_str_gts_ /\ RecordsAfterGenotype(ok, 0) = 1
                        THEN <<Event("EMStutterGenotyper::write_vcf_record str_vcf_", TRUE)>>
                        ELSE <<>>)
                  /\ pc' = "returned"
                  /\ UNCHANGED allele_vcf_
  /\ UNCHANGED <<cfgvars, loci_done, argvars, extractvars, dupvars>>

\* The call has returned; its locals are gone and the caller goes on to the
\* next locus.
return_to_caller ==
  /\ pc = "returned"
  /\ pc' = "idle"
  /\ loci_done' = loci_done + 1
  /\ alignments' = <<>> /\ log_p1s' = <<>> /\ log_p2s' = <<>>
  /\ total_reads' = 0 /\ skip_count' = 0 /\ inf_reads' = 0
  /\ str_bp_lengths' = <<>> /\ str_log_p1s' = <<>> /\ str_log_p2s' = <<>>
  /\ ei' = 0 /\ ej' = 0
  /\ trained' = FALSE /\ stutter_model' = NULL /\ length_genotyper' = NULL
  /\ trace' = <<>> /\ oob_read' = FALSE
  /\ entry' = Counters
  /\ UNCHANGED <<cfgvars, countervars, dupvars>>

Next ==
  analyze_entry \/ extract_read \/ acquire_stutter_model \/ genotype_locus \/ return_to_caller

Spec == Init /\ [][Next]_vars

(***************************************************************************)
(* Properties of the duplicate resolver.                                   *)
(***************************************************************************)
\* The read group whose outputs are complete and whose sorted read pairs are
\* still in read_pairs.
ReadGroupDone == dpc = "kept"

Signature(p) == <<p.library_, p.min_read_start_, p.max_read_start_>>

\* The primary reads the read group's outputs hold, paired ones first.
Emitted == paired_strs_by_rg[rg] \o unpaired_strs_by_rg[rg]

\* The read pair an emitted primary read came from (names are unique).
PairOf(aln) == CHOOSE p \in SeqRange(read_pairs) : p.aln_1_ = aln

Retained(k) == read_pairs[k].aln_1_ \in SeqRange(Emitted)

\* Indices a..b of read_pairs all carry one signature.
SameRun(a, b) ==
  \A m \in Min(a, b)..Max(a, b) : Signature(read_pairs[m]) = Signature(read_pairs[a])

Quality(k) == sum_log_prob_correct(read_pairs[k].aln_1_.Qualities)

\* C1: once a read group is resolved, no two read pairs retained in its
\* outputs carry the same (library, min start, max start) signature.
C1_NoTwoRetainedShareSignature ==
  ReadGroupDone =>
    \A a, b \in 1..Len(Emitted) :
      a # b => Signature(PairOf(Emitted[a])) # Signature(PairOf(Emitted[b]))

\* C1 witness: a resolved read group that had duplicates removed and still
\* retains several pairs, two of them at the same starts in different libraries.
C1_Witness ==
  /\ ReadGroupDone
  /\ dup_count >= 1
  /\ \E a, b \in 1..Len(Emitted) :
       /\ a # b
       /\ PairOf(Emitted[a]).min_read_start_ = PairOf(Emitted[b]).min_read_start_
       /\ PairOf(Emitted[a]).max_read_start_ = PairOf(Emitted[b]).max_read_start_

\* C2: in every duplicate set (maximal run of sorted read pairs with one
\* signature) exactly one pair is retained: the earliest, in sorted order, of
\* those whose primary read has the set's maximal sum_log_prob_correct.
C2_RetainedIsEarliestBest ==
  ReadGroupDone =>
    \A k \in 1..Len(read_pairs) :
      Retained(k) <=>
        /\ \A m \in 1..Len(read_pairs) : SameRun(k, m) => Quality(m) <= Quality(k)
        /\ \A m \in 1..(k - 1) : SameRun(k, m) => Quality(m) < Quality(k)

\* C2 witness: a duplicate set of three in which a lower quality comes first
\* and two later pairs tie for the maximum; the first of the two is retained.
C2_Witness ==
  /\ ReadGroupDone
  /\ \E a, b, c \in 1..Len(read_pairs) :
       /\ a < b /\ b < c /\ SameRun(a, c)
       /\ Quality(a) < Quality(b) /\ Quality(b) = Quality(c)
       /\ Retained(b) /\ ~Retained(a) /\ ~Retained(c)

\* C10: every retained pair built from a primary read and its mate is
\* emitted to paired_strs_by_rg and mate_pairs_by_rg at one index, with its
\* own mate, and every retained unpaired read to unpaired_strs_by_rg.
C10_EmittedAsBuilt ==
  ReadGroupDone =>
    /\ Len(paired_strs_by_rg[rg]) = Len(mate_pairs_by_rg[rg])
    /\ \A k \in 1..Len(paired_strs_by_rg[rg]) :
         \E m \in 1..Len(input.paired[rg]) :
           /\ paired_strs_by_rg[rg][k] = input.paired[rg][m]
           /\ mate_pairs_by_rg[rg][k] = input.mates[rg][m]
    /\ \A k \in 1..Len(unpaired_strs_by_rg[rg]) :
         \E m \in 1..Len(input.unpaired[rg]) :
           unpaired_strs_by_rg[rg][k] = input.unpaired[rg][m]

(***************************************************************************)
(* Properties of the per-locus analysis.                                   *)
(***************************************************************************)
InCall == pc \notin {"idle", "off"}

Called(call) == \E k \in 1..Len(trace) : trace[k].call = call

CalledWith(call, ok) == \E k \in 1..Len(trace) : trace[k] = Event(call, ok)

Calls(calls) == Cardinality({k \in 1..Len(trace) : trace[k].call \in calls})

LookupCalls == {"stutter_models_.find"}

TrainingCalls == {"new EMStutterGenotyper", "EMStutterGenotyper::train",
                  "EMStutterGenotyper::set_stutter_model"}

GenotyperCalls == {"new EMStutterGenotyper", "new SeqStutterGenotyper"}

GenotypeCalls == {"SeqStutterGenotyper::genotype", "EMStutterGenotyper::genotype"}

GenotypeRecordCalls == {"SeqStutterGenotyper::write_vcf_record str_vcf_",
                        "EMStutterGenotyper::write_vcf_record str_vcf_"}

RecordCalls == GenotypeRecordCalls \cup {"SeqStutterGenotyper::write_vcf_record allele_vcf_"}

\* The locus was abandoned untouched: no lookup, no training, no genotyper,
\* no record, no counter moved.
Abandoned ==
  /\ Calls(LookupCalls \cup TrainingCalls \cup GenotyperCalls \cup GenotypeCalls
           \cup RecordCalls) = 0
  /\ Counters = entry

ReadCount == SumSeq([g \in DOMAIN alignments |-> Len(alignments[g])])

\* The reads of the locus whose offset extraction fails.
UnresolvedCount ==
  SumSeq([g \in DOMAIN alignments |->
            Cardinality({j \in 1..Len(alignments[g]) :
                           ~alignments[g][j].cigar_result.got_size})])

\* C3: a locus with fewer than MIN_TOTAL_READS reads in total is abandoned
\* with no dictionary lookup, no EM genotyper built or trained, no genotyper
\* built, no record written and the four counters unchanged.
C3_TooFewReadsAbandoned ==
  (InCall /\ ReadCount < MIN_TOTAL_READS) => Abandoned /\ pc = "returned"

\* C3 witness: a later locus with some reads, but too few, returned after an
\* earlier locus had moved the counters.
C3_Witness ==
  /\ pc = "returned" /\ loci_done >= 1
  /\ ReadCount >= 1 /\ ReadCount < MIN_TOTAL_READS
  /\ entry # <<0, 0, 0, 0>>

\* C4: in train mode a training that does not converge leaves a null
\* stutter model, adds one to num_em_fail_ and nothing to num_em_converge_,
\* and the locus sees no genotype() call and no record, with the genotype
\* counters unchanged; a training that converges adds one to
\* num_em_converge_ and nothing to num_em_fail_.
C4_TrainingOutcomeCounted ==
  /\ CalledWith("EMStutterGenotyper::train", FALSE) =>
       /\ ~read_stutter_models_
       /\ stutter_model = NULL
       /\ num_em_fail_ = entry[2] + 1
       /\ num_em_converge_ = entry[1]
       /\ Calls(GenotypeCalls \cup RecordCalls) = 0
       /\ num_genotype_success_ = entry[3]
       /\ num_genotype_fail_ = entry[4]
  /\ CalledWith("EMStutterGenotyper::train", TRUE) =>
       /\ ~read_stutter_models_
       /\ num_em_converge_ = entry[1] + 1
       /\ num_em_fail_ = entry[2]

\* C4 witness: a locus with genotyping requested whose training failed has
\* returned, after an earlier locus whose training converged.
C4_Witness ==
  /\ pc = "returned"
  /\ output_str_gts_
  /\ CalledWith("EMStutterGenotyper::train", FALSE)
  /\ entry[1] = 1

PhasingMissing(g) == log_p1s = <<>> \/ log_p1s[g] = <<>>

\* C5: a record of a read for which no phasing log-likelihoods were
\* supplied (empty log_p1s/log_p2s, or an empty batch of the read group)
\* carries 0 and 0, and no element is read outside its batch.
C5_MissingPhasingDefaultsToZero ==
  /\ ~oob_read
  /\ \A g \in DOMAIN str_bp_lengths :
       PhasingMissing(g) =>
         /\ Len(str_log_p1s[g]) = Len(str_bp_lengths[g])
         /\ Len(str_log_p2s[g]) = Len(str_bp_lengths[g])
         /\ \A k \in 1..Len(str_log_p1s[g]) : str_log_p1s[g][k] = 0
         /\ \A k \in 1..Len(str_log_p2s[g]) : str_log_p2s[g][k] = 0

SkipLogged == Called("log: Skipping locus with too few reads")

LookupMissed == CalledWith("stutter_models_.find", FALSE)

TrainingFailed == CalledWith("EMStutterGenotyper::train", FALSE)

GenotypingFailed ==
  \/ CalledWith("SeqStutterGenotyper::genotype", FALSE)
  \/ CalledWith("EMStutterGenotyper::genotype", FALSE)

LocusSkipped == SkipLogged \/ LookupMissed \/ TrainingFailed \/ GenotypingFailed

\* C6 as claimed: every locus-level skip adds to num_em_fail_ or to
\* num_genotype_fail_.
C6_EverySkipCountsAFailure ==
  (pc = "returned" /\ LocusSkipped) =>
    (num_em_fail_ > entry[2] \/ num_genotype_fail_ > entry[4])

\* C6 as amended: a failed training adds one to num_em_fail_ and a failed
\* genotyping adds one to num_genotype_fail_; the two early exits and a
\* dictionary miss move no failure counter; after any of these skips the
\* call returns to its caller (it neither dies nor aborts).
C6_OnlyTrainingAndGenotypingFailuresCount ==
  LET training_failed == TrainingFailed
      genotyping_failed == GenotypingFailed
      exit_or_miss == SkipLogged \/ LookupMissed
  IN
  /\ training_failed => num_em_fail_ = entry[2] + 1 /\ num_genotype_fail_ = entry[4]
  /\ genotyping_failed => num_genotype_fail_ = entry[4] + 1
  /\ (genotyping_failed /\ ~Called("EMStutterGenotyper::train")) => num_em_fail_ = entry[2]
  /\ exit_or_miss => num_em_fail_ = entry[2] /\ num_genotype_fail_ = entry[4]
  /\ (exit_or_miss \/ training_failed \/ genotyping_failed) =>
       pc \in {"genotype", "returned"}

\* C6 witness: a locus left at the second early exit has returned with the
\* failure counters where an earlier failed training had put them.
C6_Witness ==
  /\ pc = "returned"
  /\ SkipLogged
  /\ ReadCount >= MIN_TOTAL_READS
  /\ entry[2] = 1 /\ num_em_fail_ = 1

\* C7 as claimed: in every configuration, a locus whose reads minus those
\* with a failing offset extraction number less than MIN_TOTAL_READS is
\* abandoned untouched.
C7_AbandonedInEveryConfiguration ==
  (InCall /\ ReadCount - UnresolvedCount < MIN_TOTAL_READS) => Abandoned

\* C7 as amended: that holds when read_stutter_models_ or use_seq_aligner_
\* is false.  When both are true no offset is extracted, no read is counted
\* as skipped, and a locus of at least MIN_TOTAL_READS reads goes on to the
\* dictionary lookup whatever its reads' offsets.
C7_AbandonedWhenOffsetsAreExtracted ==
  /\ (InCall /\ (~read_stutter_models_ \/ ~use_seq_aligner_)
             /\ ReadCount - UnresolvedCount < MIN_TOTAL_READS) => Abandoned
  /\ (InCall /\ read_stutter_models_ /\ use_seq_aligner_) =>
       /\ skip_count = 0 /\ pc # "extract"
       /\ (pc \in {"genotype", "returned", "died"} /\ ReadCount >= MIN_TOTAL_READS)
            => Calls(LookupCalls) = 1

\* C7 witness: a locus with enough reads, too few of them resolvable, has
\* returned from the second early exit after an earlier locus was analysed.
C7_Witness ==
  /\ pc = "returned"
  /\ ~read_stutter_models_ \/ ~use_seq_aligner_
  /\ ReadCount >= MIN_TOTAL_READS
  /\ ReadCount - UnresolvedCount < MIN_TOTAL_READS
  /\ skip_count >= 1
  /\ entry # <<0, 0, 0, 0>>

\* C8: per locus at most one genotype() is called, only with a non-null
\* stutter model and output_str_gts_ set, the sequence-based one exactly
\* when use_seq_aligner_; the call adds one to exactly one of
\* num_genotype_success_ and num_genotype_fail_; a genotype record is
\* written if and only if the call succeeded; the records of str_vcf_ always
\* number num_genotype_success_.
C8_OneGenotypeCallPerLocus ==
  LET genotype_calls == Calls(GenotypeCalls)
      failed == IF GenotypingFailed THEN 1 ELSE 0
  IN
  /\ genotype_calls <= 1
  /\ genotype_calls = 1 => stutter_model # NULL /\ output_str_gts_
  /\ Called("SeqStutterGenotyper::genotype") => use_seq_aligner_
  /\ Called("EMStutterGenotyper::genotype") => ~use_seq_aligner_
  /\ (pc \in {"returned", "died"} /\ stutter_model # NULL /\ output_str_gts_)
       => genotype_calls = 1
  /\ num_genotype_success_ - entry[3] = genotype_calls - failed
  /\ num_genotype_fail_ - entry[4] = failed
  /\ Calls(GenotypeRecordCalls) = num_genotype_success_ - entry[3]
  /\ str_vcf_ = num_genotype_success_

\* C8 witness: over two loci one genotyping succeeded and one failed.
C8_Witness ==
  /\ pc = "returned" /\ loci_done >= 1
  /\ num_genotype_success_ = 1 /\ num_genotype_fail_ = 1
  /\ str_vcf_ = 1

\* The reads of read group g whose loop iteration has run.
Examined(g) ==
  CASE pc = "extract" ->
         IF g < ei THEN Len(alignments[g]) ELSE IF g = ei THEN ej - 1 ELSE 0
    [] pc = "crashed" ->
         IF g < ei THEN Len(alignments[g]) ELSE IF g = ei THEN ej ELSE 0
    [] OTHER ->
         IF ~read_stutter_models_ \/ ~use_seq_aligner_ THEN Len(alignments[g]) ELSE 0

\* The read's extraction succeeded with a difference of at least minus the
\* reference allele's length.
RecordContributed(aln) ==
  /\ aln.cigar_result.got_size
  /\ aln.cigar_result.bp_diff >= -(region.stop - region.start + 1)

\* The differences of the retained reads among the first n of reads.
RetainedDiffs(reads, n) ==
  LET kept == SelectSeq(SubSeq(reads, 1, n), RecordContributed)
  IN [k \in 1..Len(kept) |-> kept[k].cigar_result.bp_diff]

\* C9: a read whose extraction succeeds contributes a record iff its
\* difference is >= -(stop - start + 1): str_bp_lengths holds exactly those
\* differences, inf_reads counts them, and an excluded read adds nothing to
\* str_bp_lengths, str_log_p1s or str_log_p2s.
C9_BoundaryDifferenceRetained ==
  /\ \A g \in DOMAIN str_bp_lengths :
       /\ str_bp_lengths[g] = RetainedDiffs(alignments[g], Examined(g))
       /\ Len(str_log_p2s[g]) <= Len(str_log_p1s[g])
       /\ Len(str_log_p1s[g]) <= Len(str_bp_lengths[g])
       /\ pc # "crashed" => /\ Len(str_log_p1s[g]) = Len(str_bp_lengths[g])
                            /\ Len(str_log_p2s[g]) = Len(str_bp_lengths[g])
  /\ inf_reads = SumSeq([g \in DOMAIN str_bp_lengths |-> Len(str_bp_lengths[g])])

\* C9 witness: of two reads of one read group, the one whose difference
\* equals minus the reference allele's length is recorded and the one whose
\* difference is one less is not.
C9_Witness ==
  /\ pc = "acquire"
  /\ inf_reads = 1
  /\ \E g \in DOMAIN alignments :
       /\ Len(alignments[g]) = 2
       /\ \E a, b \in 1..2 :
            /\ alignments[g][a].cigar_result =
                 [got_size |-> TRUE, bp_diff |-> -(region.stop - region.start + 1)]
            /\ alignments[g][b].cigar_result =
                 [got_size |-> TRUE, bp_diff |-> -(region.stop - region.start + 1) - 1]
       /\ str_bp_lengths[g] = <<-(region.stop - region.start + 1)>>
       /\ Len(str_log_p1s[g]) = 1

====
